---- MODULE Spec2Model ----
(***************************************************************************)
(* Weekly schedule assignment of the marathon plan generator:              *)
(* generateWeek = generateRunningSchedule ; scheduleStrengthForWeek ;      *)
(* the per-day assembly of the TrainingWeek.                               *)
(*                                                                         *)
(* Distances are kept in tenths of a mile (the code rounds to one          *)
(* decimal).  Calendar dates are day numbers; the ISO strings the code     *)
(* compares order the same way.  A property that is undefined in the code  *)
(* is the string "undefined" (or UndefinedDistance for a number).          *)
(***************************************************************************)
EXTENDS Integers, Sequences, FiniteSets, TLC

VARIABLES pc, template, phase, isRecoveryWeek, level, blockedDates,
          strengthPreferences, availability, runningSchedule, strengthAllocations,
          week, call, ret

vars == <<pc, template, phase, isRecoveryWeek, level, blockedDates,
          strengthPreferences, availability, runningSchedule, strengthAllocations,
          week, call, ret>>

inputs == <<template, phase, isRecoveryWeek, level, blockedDates, strengthPreferences, availability>>

pure == <<call, ret>>

----------------------------------------------------------------------------
(* Bounds *)

MaxRanges == 2

MaxPref == 7

----------------------------------------------------------------------------
(* Days and dates *)

DAYS_IN_ORDER == <<"monday", "tuesday", "wednesday", "thursday", "friday", "saturday", "sunday">>

Days == {DAYS_IN_ORDER[i] : i \in 1..7}

indexOf(day) == CHOOSE i \in 1..7 : DAYS_IN_ORDER[i] = day

getPreviousDay(day) == DAYS_IN_ORDER[(((indexOf(day) - 1) - 1 + 7) % 7) + 1]

getNextDay(day) == DAYS_IN_ORDER[(((indexOf(day) - 1) + 1) % 7) + 1]

WeekStart == 0

getDateForDay(weekStart, day) == weekStart + (indexOf(day) - 1)

Undefined == "undefined"

UndefinedDistance == -1

----------------------------------------------------------------------------
(* Blocked date ranges *)

\* variant: the last containing range wins
isDateBlocked_LastMatch(date, ranges) ==
    LET hits == {i \in 1..Len(ranges) : date >= ranges[i].start /\ date <= ranges[i].end}
    IN  IF hits = {}
        THEN [blocked |-> FALSE, reason |-> Undefined]
        ELSE LET last == CHOOSE i \in hits : \A j \in hits : i >= j
             IN  [blocked |-> TRUE, reason |-> ranges[last].reason]

isDateBlocked(date, ranges) ==
    LET hits == {i \in 1..Len(ranges) : date >= ranges[i].start /\ date <= ranges[i].end}
    IN  IF hits = {}
        THEN [blocked |-> FALSE, reason |-> Undefined]
        ELSE LET first == CHOOSE i \in hits : \A j \in hits : i <= j
             IN  [blocked |-> TRUE, reason |-> ranges[first].reason]

isDayBlocked(day, weekStart, ranges) == isDateBlocked(getDateForDay(weekStart, day), ranges)

----------------------------------------------------------------------------
(* Workouts *)

Phases == {"base", "build", "peak", "taper", "race"}

Levels == {"conservative", "moderate", "ambitious"}

Workout(type, title, distance, notes) ==
    [type |-> type, title |-> title, totalDistance |-> distance, notes |-> notes]

NoWorkout == Workout(Undefined, <<>>, UndefinedDistance, Undefined)

OrDefault(distance, default) ==
    IF distance = UndefinedDistance \/ distance = 0 THEN default ELSE distance

RoundDiv(a, b) == (2 * a + b) \div (2 * b)

\* variant: the reason handed in is dropped
createRestDay_NoNotes(notes) == Workout("rest", <<"Rest Day">>, UndefinedDistance, Undefined)

createRestDay(notes) == Workout("rest", <<"Rest Day">>, UndefinedDistance, notes)

createEasyRun(distance, title) == Workout("easy", title, distance, Undefined)

createLongRun(distance, ph, withProgression, withMarathonPaceFinish) ==
    LET type == IF withMarathonPaceFinish /\ ph \in {"peak", "build"} THEN "race_pace"
                ELSE IF withProgression /\ ph # "base" THEN "progression"
                ELSE "long"
    IN  Workout(type, <<"Long Run">>, distance, Undefined)

createTempoRun(tempoMiles, reduced) ==
    LET warmupMiles == IF reduced THEN 10 ELSE 15
        cooldownMiles == IF reduced THEN 10 ELSE 15
    IN  Workout("tempo", IF reduced THEN <<"Short Tempo">> ELSE <<"Tempo Run">>,
                warmupMiles + tempoMiles + cooldownMiles, Undefined)

createIntervals800(repeats) ==
    LET warmupMiles == 20
        cooldownMiles == 10
        \* (800 / 1609.34) * repeats + (800 / 2 / 1609.34) * (repeats - 1), in tenths
        workAndRecovery == RoundDiv((800 * repeats + 400 * (repeats - 1)) * 1000, 160934)
    IN  Workout("intervals", <<"800m Repeats">>,
                warmupMiles + workAndRecovery + cooldownMiles, Undefined)

createHillRepeats(repeats, durationSeconds) ==
    LET hillMiles == ((repeats * durationSeconds) \div 60) * 2
    IN  Workout("hill_repeats", <<"Hill Repeats">>, 15 + hillMiles + 15, Undefined)

createFartlek(totalMiles) == Workout("fartlek", <<"Fartlek">>, totalMiles, Undefined)

createCrossTraining == Workout("cross_training", <<"Cross Training">>, UndefinedDistance, Undefined)

createRecoveryRun(distance) == Workout("recovery", <<"Recovery Run">>, distance, Undefined)

generateWorkout(type, distance, ph, isRecovery) ==
    CASE type = "rest" -> createRestDay(Undefined)
      [] type = "easy" -> createEasyRun(OrDefault(distance, 40), <<"Easy Run">>)
      [] type = "long" ->
            createLongRun(OrDefault(distance, 120), ph,
                          (ph # "base" /\ ~isRecovery) /\ ph = "build", FALSE)
      [] type = "tempo" ->
            createTempoRun(IF isRecovery THEN 20 ELSE IF ph = "base" THEN 30 ELSE 40, isRecovery)
      [] type = "intervals" -> createIntervals800(IF isRecovery THEN 6 ELSE 8)
      [] type = "hill_repeats" -> createHillRepeats(IF isRecovery THEN 4 ELSE 6, 60)
      [] type = "fartlek" -> createFartlek(OrDefault(distance, 60))
      [] type = "cross_training" -> createCrossTraining
      [] type = "recovery" -> createRecoveryRun(OrDefault(distance, 40))
      [] type = "progression" -> createLongRun(OrDefault(distance, 160), ph, TRUE, FALSE)
      [] type = "race_pace" -> createLongRun(OrDefault(distance, 160), ph, FALSE, TRUE)
      [] OTHER -> createEasyRun(40, <<"Easy Run">>)

\* variant: the taper reduction is two miles
getDefaultEasyDistance_DeepTaper(lvl, ph) ==
    LET base == CASE lvl = "conservative" -> 30
                  [] lvl = "moderate" -> 40
                  [] lvl = "ambitious" -> 50
    IN  IF ph = "peak" THEN base + 10
        ELSE IF ph = "taper" THEN base - 20
        ELSE base

getDefaultEasyDistance(lvl, ph) ==
    LET base == CASE lvl = "conservative" -> 30
                  [] lvl = "moderate" -> 40
                  [] lvl = "ambitious" -> 50
    IN  IF ph = "peak" THEN base + 10
        ELSE IF ph = "taper" THEN base - 10
        ELSE base

----------------------------------------------------------------------------
(* Week templates produced by the phase generators *)

Quality(day, type, distance) == [day |-> day, type |-> type, distance |-> distance]

WeekTemplate(longRunDay, longRunDistance, qualityDays, easyRunDays, restDays, crossTrainingDay) ==
    [longRunDay |-> longRunDay, longRunDistance |-> longRunDistance,
     qualityDays |-> qualityDays, easyRunDays |-> easyRunDays,
     restDays |-> restDays, crossTrainingDay |-> crossTrainingDay]

\* base phase week 3: fartlek
BaseWeek3Template ==
    WeekTemplate("sunday", 120, <<Quality("tuesday", "fartlek", 60)>>,
                 <<"monday", "wednesday", "friday">>, <<"thursday">>, "saturday")

\* base phase recovery week: two rest days, no cross training
BaseRecoveryTemplate ==
    WeekTemplate("sunday", 80, <<Quality("tuesday", "tempo", UndefinedDistance)>>,
                 <<"monday", "wednesday", "friday">>, <<"thursday", "saturday">>, Undefined)

\* race week: the race is the Saturday long run, Sunday rests
createRaceWeekTemplate ==
    WeekTemplate("saturday", 262, <<Quality("tuesday", "intervals", 30)>>,
                 <<"monday", "wednesday", "friday">>, <<"thursday", "sunday">>, Undefined)

\* createWeekTemplate with a second quality session on Thursday
createWeekTemplate ==
    WeekTemplate("sunday", 140,
                 <<Quality("tuesday", "tempo", UndefinedDistance),
                   Quality("thursday", "hill_repeats", UndefinedDistance)>>,
                 <<"monday", "wednesday", "friday">>, <<>>, "saturday")

Templates == {BaseWeek3Template, BaseRecoveryTemplate,
              createRaceWeekTemplate, createWeekTemplate}

----------------------------------------------------------------------------
(* Athlete inputs *)

\* A blocked range as the intake document carries it; the generator's
\* BlockedDateRange type reads start, end and reason only.
Range(start, end, reason, type, activity) ==
    [start |-> start, end |-> end, reason |-> reason, type |-> type,
     crossTrainingActivity |-> activity]

\* The Friday-to-Saturday range carries no reason: the field is optional and
\* the parser sets it only when it finds a reason keyword in the segment.
RangePalette ==
    { Range(6, 6, "Family event", "rest", Undefined),
      Range(5, 6, "Work travel", "rest", Undefined),
      Range(0, 5, "Conference", "rest", Undefined),
      Range(4, 5, Undefined, "cross-training", "Skiing") }

RECURSIVE SeqsUpTo(_, _)
SeqsUpTo(S, n) ==
    IF n = 0 THEN {<<>>}
    ELSE LET shorter == SeqsUpTo(S, n - 1)
         IN  shorter \cup {Append(q, x) : q \in shorter, x \in S}

BlockedDateLists == SeqsUpTo(RangePalette, MaxRanges)

PreferredDaySets ==
    { {}, {"tuesday", "thursday", "saturday"}, {"sunday"} }

StrengthPreferences(daysPerWeek, preferredDays) ==
    [daysPerWeek |-> daysPerWeek, preferredDays |-> preferredDays]

(* The athlete's availability: the weekdays on which running, and on which *)
(* strength work, is possible.  generateWeek receives it with the athlete  *)
(* and reads nothing of it.                                                *)
AvailableDaySets ==
    { [runningDays |-> {"monday", "wednesday", "friday", "saturday", "sunday"},
       strengthDays |-> {"tuesday", "thursday", "saturday"}] }

NoCall == <<>>

----------------------------------------------------------------------------
(* generateRunningSchedule *)

EmptyMap == [d \in {} |-> NoWorkout]

has(map, day) == day \in DOMAIN map

set(map, day, value) == [d \in (DOMAIN map) \cup {day} |-> IF d = day THEN value ELSE map[d]]

get(map, day, undefined) == IF day \in DOMAIN map THEN map[day] ELSE undefined

altDayOf(longRunDay) == IF longRunDay = "sunday" THEN "saturday" ELSE "sunday"

\* variant: a blocked long run is never moved, only zeroed
adjustTemplate_NeverMoves(tpl, ranges, weekStart) ==
    LET longRunBlocked == isDayBlocked(tpl.longRunDay, weekStart, ranges)
    IN  IF longRunBlocked.blocked
        THEN [tpl EXCEPT !.longRunDistance = 0]
        ELSE tpl

\* lines 93-108: the adjusted copy of the template
adjustTemplate(tpl, ranges, weekStart) ==
    LET longRunBlocked == isDayBlocked(tpl.longRunDay, weekStart, ranges)
        altDay == altDayOf(tpl.longRunDay)
        altBlocked == isDayBlocked(altDay, weekStart, ranges)
    IN  IF longRunBlocked.blocked
        THEN IF ~altBlocked.blocked
             THEN [tpl EXCEPT !.longRunDay = altDay]
             ELSE [tpl EXCEPT !.longRunDistance = 0]
        ELSE tpl

\* lines 110-129
placeLongRun(schedule, tpl, ph, isRecovery, ranges, weekStart) ==
    LET longRunBlocked == isDayBlocked(tpl.longRunDay, weekStart, ranges)
        adjustedTemplate == adjustTemplate(tpl, ranges, weekStart)
    IN  IF adjustedTemplate.longRunDistance > 0
        THEN LET longRun == generateWorkout("long", adjustedTemplate.longRunDistance, ph, isRecovery)
                 titled == IF isRecovery THEN [longRun EXCEPT !.title = <<"Reduced Long Run">>]
                           ELSE longRun
             IN  set(schedule, adjustedTemplate.longRunDay, titled)
        ELSE set(schedule, tpl.longRunDay, createRestDay(longRunBlocked.reason))

\* lines 131-154
RECURSIVE placeQuality(_, _, _, _, _, _, _, _)
placeQuality(schedule, qualityDays, i, ph, isRecovery, lvl, ranges, weekStart) ==
    IF i > Len(qualityDays) THEN schedule
    ELSE LET quality == qualityDays[i]
             blocked == isDayBlocked(quality.day, weekStart, ranges)
             workout == IF blocked.blocked
                        THEN createEasyRun(getDefaultEasyDistance(lvl, ph) - 10,
                                           <<"Easy Run (adjusted: ", blocked.reason, ")">>)
                        ELSE generateWorkout(quality.type, quality.distance, ph, isRecovery)
         IN  placeQuality(set(schedule, quality.day, workout), qualityDays, i + 1,
                          ph, isRecovery, lvl, ranges, weekStart)

\* lines 156-171
RECURSIVE placeEasyRuns(_, _, _, _, _, _, _)
placeEasyRuns(schedule, easyRunDays, i, ph, lvl, ranges, weekStart) ==
    IF i > Len(easyRunDays) THEN schedule
    ELSE LET day == easyRunDays[i]
             blocked == isDayBlocked(day, weekStart, ranges)
             next == IF has(schedule, day) THEN schedule
                     ELSE IF blocked.blocked THEN set(schedule, day, createRestDay(blocked.reason))
                     ELSE set(schedule, day, createEasyRun(getDefaultEasyDistance(lvl, ph), <<"Easy Run">>))
         IN  placeEasyRuns(next, easyRunDays, i + 1, ph, lvl, ranges, weekStart)

\* lines 173-177
RECURSIVE placeRestDays(_, _, _)
placeRestDays(schedule, restDays, i) ==
    IF i > Len(restDays) THEN schedule
    ELSE LET day == restDays[i]
             next == IF has(schedule, day) THEN schedule
                     ELSE set(schedule, day, createRestDay(Undefined))
         IN  placeRestDays(next, restDays, i + 1)

\* lines 179-187
placeCrossTraining(schedule, tpl, ranges, weekStart) ==
    IF tpl.crossTrainingDay # Undefined /\ ~has(schedule, tpl.crossTrainingDay)
    THEN LET blocked == isDayBlocked(tpl.crossTrainingDay, weekStart, ranges)
         IN  IF blocked.blocked
             THEN set(schedule, tpl.crossTrainingDay, createRestDay(blocked.reason))
             ELSE set(schedule, tpl.crossTrainingDay, createCrossTraining)
    ELSE schedule

generateRunningSchedule(tpl, ph, isRecovery, lvl, ranges, weekStart) ==
    LET afterLong == placeLongRun(EmptyMap, tpl, ph, isRecovery, ranges, weekStart)
        afterQuality == placeQuality(afterLong, tpl.qualityDays, 1, ph, isRecovery, lvl, ranges, weekStart)
        afterEasy == placeEasyRuns(afterQuality, tpl.easyRunDays, 1, ph, lvl, ranges, weekStart)
        afterRest == placeRestDays(afterEasy, tpl.restDays, 1)
    IN  placeCrossTraining(afterRest, tpl, ranges, weekStart)

----------------------------------------------------------------------------
(* Strength scheduler *)

isSpeedWorkout(runType) ==
    runType \in {"tempo", "intervals", "hill_repeats", "fartlek", "race_pace"}

isLongRun(runType) == runType \in {"long", "progression"}

\* variant: a speed run on the next day is not tested
canDoHeavyLegs_IgnoresNextSpeed(day, weekWorkouts) ==
    LET prevWorkout == get(weekWorkouts, getPreviousDay(day), Undefined)
        nextWorkout == get(weekWorkouts, getNextDay(day), Undefined)
    IN  /\ ~(prevWorkout # Undefined /\ isSpeedWorkout(prevWorkout))
        /\ ~(nextWorkout # Undefined /\ isLongRun(nextWorkout))

\* dayAfterNext is read by the code and then not used
canDoHeavyLegs(day, weekWorkouts) ==
    LET prevWorkout == get(weekWorkouts, getPreviousDay(day), Undefined)
        nextWorkout == get(weekWorkouts, getNextDay(day), Undefined)
    IN  /\ ~(prevWorkout # Undefined /\ isSpeedWorkout(prevWorkout))
        /\ ~(nextWorkout # Undefined /\ isSpeedWorkout(nextWorkout))
        /\ ~(nextWorkout # Undefined /\ isLongRun(nextWorkout))

\* variant: the long-run check is missing
canLiftOnDay_Always(day, weekWorkouts) == TRUE

canLiftOnDay(day, weekWorkouts) ==
    LET nextWorkout == get(weekWorkouts, getNextDay(day), Undefined)
    IN  ~(nextWorkout # Undefined /\ isLongRun(nextWorkout))

getStrengthDuration(type, ph, isRecovery) ==
    LET base == CASE type = "full_body" -> 35
                  [] type = "lower_body" -> 40
                  [] type = "upper_body" -> 30
                  [] type = "core" -> 20
                  [] type = "mobility" -> 15
    IN  IF isRecovery THEN (IF type = "core" THEN 15 ELSE 25)
        \* Math.round(base * 0.7); 35 * 0.7 is 24.499999999999996 in doubles
        ELSE IF ph = "peak" THEN (IF type = "full_body" THEN 24 ELSE RoundDiv(base * 7, 10))
        ELSE IF ph = "taper" THEN RoundDiv(base * 5, 10)
        ELSE base

Max(a, b) == IF a >= b THEN a ELSE b

Min(a, b) == IF a <= b THEN a ELSE b

\* variant: the build phase has no floor of one session
getStrengthDaysForPhase_NoFloor(preferredDays, ph, isRecovery) ==
    IF isRecovery THEN 1
    ELSE CASE ph = "base" -> preferredDays
           [] ph = "build" -> preferredDays - 1
           [] ph = "peak" -> Min(2, (preferredDays + 1) \div 2)
           [] ph \in {"taper", "race"} -> 0
           [] OTHER -> preferredDays

getStrengthDaysForPhase(preferredDays, ph, isRecovery) ==
    IF isRecovery THEN 1
    ELSE CASE ph = "base" -> preferredDays
           [] ph = "build" -> Max(1, preferredDays - 1)
           [] ph = "peak" -> Min(2, (preferredDays + 1) \div 2)
           [] ph \in {"taper", "race"} -> 0
           [] OTHER -> preferredDays

StrengthAllocation(day, type, timing, duration, notes) ==
    [day |-> day, type |-> type, timing |-> timing, duration |-> duration, notes |-> notes]

NoAllocation == StrengthAllocation(Undefined, Undefined, Undefined, UndefinedDistance, Undefined)

\* variant: the candidates are not sorted by preference
sortedDaysOf_NaturalOrder(weekWorkouts, preferredDays) ==
    SelectSeq(DAYS_IN_ORDER, LAMBDA d : canLiftOnDay(d, weekWorkouts))

\* lines 187-202: days on which lifting is allowed, preferred days first (stable sort)
sortedDaysOf(weekWorkouts, preferredDays) ==
    LET availableDays == SelectSeq(DAYS_IN_ORDER, LAMBDA d : canLiftOnDay(d, weekWorkouts))
    IN  SelectSeq(availableDays, LAMBDA d : d \in preferredDays)
          \o SelectSeq(availableDays, LAMBDA d : d \notin preferredDays)

\* lines 209-255: loop state is <<allocations, legsScheduled, upperScheduled, sessionsScheduled>>
RECURSIVE allocateSessions(_, _, _, _, _, _, _, _, _, _)
allocateSessions(allocations, sortedDays, i, legsScheduled, upperScheduled, sessionsScheduled, targetDays, weekWorkouts, ph, isRecovery) ==
    IF i > Len(sortedDays) \/ sessionsScheduled >= targetDays THEN allocations
    ELSE LET day == sortedDays[i]
             dayRun == get(weekWorkouts, day, Undefined)
             canDoLegs == canDoHeavyLegs(day, weekWorkouts)
             runTiming == IF dayRun # Undefined THEN "After run" ELSE "Any time"
             branch == IF isRecovery THEN "recovery"
                       ELSE IF ph = "peak" THEN "peak"
                       ELSE IF canDoLegs /\ ~legsScheduled THEN "legs"
                       ELSE IF ~upperScheduled THEN "upper"
                       ELSE "core"
             type == CASE branch = "recovery" -> "full_body"
                       [] branch = "peak" -> (IF sessionsScheduled = 0 THEN "lower_body" ELSE "core")
                       [] branch = "legs" -> "lower_body"
                       [] branch = "upper" -> "upper_body"
                       [] branch = "core" -> "core"
             timing == CASE branch = "recovery" -> "Light session"
                         [] branch = "peak" -> "Light - maintenance only"
                         [] OTHER -> runTiming
             notes == CASE branch = "recovery" -> "Recovery week - lighter weight, fewer sets"
                        [] branch = "legs" /\ ph = "build" -> "Build phase - reduced volume from base"
                        [] OTHER -> Undefined
             allocation == StrengthAllocation(day, type, timing,
                                              getStrengthDuration(type, ph, isRecovery), notes)
         IN  allocateSessions(set(allocations, day, allocation), sortedDays, i + 1,
                              legsScheduled \/ branch = "legs",
                              upperScheduled \/ branch = "upper",
                              sessionsScheduled + 1,
                              targetDays, weekWorkouts, ph, isRecovery)

scheduleStrengthForWeek(weekWorkouts, preferences, ph, isRecovery) ==
    LET targetDays == getStrengthDaysForPhase(preferences.daysPerWeek, ph, isRecovery)
        noAllocations == [d \in {} |-> NoAllocation]
    IN  IF targetDays = 0 THEN noAllocations
        ELSE allocateSessions(noAllocations, sortedDaysOf(weekWorkouts, preferences.preferredDays),
                              1, FALSE, FALSE, 0, targetDays, weekWorkouts, ph, isRecovery)

StrengthSession(scheduled, type, timing, duration, notes) ==
    [scheduled |-> scheduled, type |-> type, timing |-> timing, duration |-> duration, notes |-> notes]

NoSession == StrengthSession(FALSE, Undefined, Undefined, UndefinedDistance, Undefined)

createStrengthSession(allocation) ==
    IF allocation = NoAllocation THEN NoSession
    ELSE StrengthSession(TRUE, allocation.type, allocation.timing, allocation.duration, allocation.notes)

----------------------------------------------------------------------------
(* generateWeek *)

\* lines 246-250
workoutTypesOf(schedule) == [d \in DOMAIN schedule |-> schedule[d].type]

RECURSIVE SumMileage(_, _)
SumMileage(schedule, daySet) ==
    IF daySet = {} THEN 0
    ELSE LET d == CHOOSE x \in daySet : TRUE
             miles == IF schedule[d].totalDistance > 0 THEN schedule[d].totalDistance ELSE 0
         IN  miles + SumMileage(schedule, daySet \ {d})

calculateWeekTotals(schedule, strengthDays) ==
    [totalMileage |-> SumMileage(schedule, DOMAIN schedule), strengthDays |-> strengthDays]

\* lines 266-303: a TrainingDay has date, dayOfWeek, running, strength (and nutrition)
TrainingDay(day, weekStart, schedule, allocations) ==
    [date |-> getDateForDay(weekStart, day),
     dayOfWeek |-> day,
     running |-> get(schedule, day, NoWorkout),
     strength |-> createStrengthSession(get(allocations, day, NoAllocation))]

NoWeek == [days |-> [d \in {} |-> 0], totalMileage |-> 0, strengthDays |-> 0]

TrainingWeek(weekStart, schedule, allocations) ==
    LET totals == calculateWeekTotals(schedule, Cardinality(DOMAIN allocations))
    IN  [days |-> [d \in Days |-> TrainingDay(d, weekStart, schedule, allocations)],
         totalMileage |-> totals.totalMileage,
         strengthDays |-> totals.strengthDays]

----------------------------------------------------------------------------
(* The state machine: one call of generateWeek *)

Init ==
    /\ pc = "start"
    /\ template \in Templates
    /\ phase \in Phases
    /\ isRecoveryWeek \in BOOLEAN
    /\ level \in Levels
    /\ blockedDates \in BlockedDateLists
    /\ strengthPreferences \in
          {StrengthPreferences(n, p) : n \in 0..MaxPref, p \in PreferredDaySets}
    /\ availability \in AvailableDaySets
    /\ runningSchedule = EmptyMap
    /\ strengthAllocations = [d \in {} |-> NoAllocation]
    /\ week = NoWeek
    /\ call = NoCall
    /\ ret = NoCall

\* variant: the adjusted template is the caller's object, not a copy of it
GenerateRunningSchedule_AliasesTemplate ==
    /\ pc = "start"
    /\ runningSchedule' = generateRunningSchedule(template, phase, isRecoveryWeek, level,
                                                  blockedDates, WeekStart)
    /\ template' = adjustTemplate(template, blockedDates, WeekStart)
    /\ pc' = "running"
    /\ UNCHANGED <<phase, isRecoveryWeek, level, blockedDates, strengthPreferences,
                   availability, strengthAllocations, week, pure>>

GenerateRunningSchedule ==
    /\ pc = "start"
    /\ runningSchedule' = generateRunningSchedule(template, phase, isRecoveryWeek, level,
                                                  blockedDates, WeekStart)
    /\ pc' = "running"
    /\ UNCHANGED <<inputs, strengthAllocations, week, pure>>

\* variant: a week with fewer sessions than the target is an error exit
ScheduleStrength_ThrowsOnShortfall ==
    /\ pc = "running"
    /\ strengthAllocations' = scheduleStrengthForWeek(workoutTypesOf(runningSchedule),
                                                      strengthPreferences, phase, isRecoveryWeek)
    /\ pc' = IF Cardinality(DOMAIN strengthAllocations')
                  < getStrengthDaysForPhase(strengthPreferences.daysPerWeek, phase, isRecoveryWeek)
             THEN "error" ELSE "strength"
    /\ UNCHANGED <<inputs, runningSchedule, week, pure>>

ScheduleStrength ==
    /\ pc = "running"
    /\ strengthAllocations' = scheduleStrengthForWeek(workoutTypesOf(runningSchedule),
                                                      strengthPreferences, phase, isRecoveryWeek)
    /\ pc' = "strength"
    /\ UNCHANGED <<inputs, runningSchedule, week, pure>>

BuildDays ==
    /\ pc = "strength"
    /\ week' = TrainingWeek(WeekStart, runningSchedule, strengthAllocations)
    /\ pc' = "done"
    /\ UNCHANGED <<inputs, runningSchedule, strengthAllocations, pure>>

Next == GenerateRunningSchedule \/ ScheduleStrength \/ BuildDays

Spec == Init /\ [][Next]_vars

----------------------------------------------------------------------------
(* Vocabulary of the properties, stated on the inputs and on the results *)

Scheduled == pc \in {"running", "strength", "done"}

Allocated == pc \in {"strength", "done"}

Done == pc = "done"

DateOfDay(d) ==
    WeekStart + (CASE d = "monday" -> 0 [] d = "tuesday" -> 1 [] d = "wednesday" -> 2
                   [] d = "thursday" -> 3 [] d = "friday" -> 4 [] d = "saturday" -> 5
                   [] d = "sunday" -> 6)

CoveringRanges(d) ==
    {i \in 1..Len(blockedDates) :
        blockedDates[i].start <= DateOfDay(d) /\ DateOfDay(d) <= blockedDates[i].end}

DayIsBlocked(d) == CoveringRanges(d) # {}

FirstCoveringRange(d) ==
    blockedDates[CHOOSE i \in CoveringRanges(d) : \A j \in CoveringRanges(d) : i <= j]

WeekendAlternate(d) == IF d = "saturday" THEN "sunday" ELSE "saturday"

DayAfter(d) ==
    CASE d = "monday" -> "tuesday" [] d = "tuesday" -> "wednesday"
      [] d = "wednesday" -> "thursday" [] d = "thursday" -> "friday"
      [] d = "friday" -> "saturday" [] d = "saturday" -> "sunday"
      [] d = "sunday" -> "monday"

DayBefore(d) ==
    CASE d = "monday" -> "sunday" [] d = "tuesday" -> "monday"
      [] d = "wednesday" -> "tuesday" [] d = "thursday" -> "wednesday"
      [] d = "friday" -> "thursday" [] d = "saturday" -> "friday"
      [] d = "sunday" -> "saturday"

RealizedType(d) == IF d \in DOMAIN runningSchedule THEN runningSchedule[d].type ELSE Undefined

LongTypes == {"long", "progression"}

SpeedTypes == {"tempo", "intervals", "hill_repeats", "fartlek", "race_pace"}

TemplateRoleDays(tpl) ==
    {tpl.longRunDay} \cup {tpl.qualityDays[i].day : i \in 1..Len(tpl.qualityDays)}
      \cup {tpl.easyRunDays[i] : i \in 1..Len(tpl.easyRunDays)}
      \cup {tpl.restDays[i] : i \in 1..Len(tpl.restDays)}
      \cup (IF tpl.crossTrainingDay = Undefined THEN {} ELSE {tpl.crossTrainingDay})

LongRunMoved ==
    /\ template.longRunDistance > 0
    /\ DayIsBlocked(template.longRunDay)
    /\ ~DayIsBlocked(WeekendAlternate(template.longRunDay))

BothWeekendDaysBlocked ==
    /\ DayIsBlocked(template.longRunDay)
    /\ DayIsBlocked(WeekendAlternate(template.longRunDay))

\* a property the TrainingDay type does not declare reads as undefined
IsBlockedDayFlag(day) == "isBlockedDay" \in DOMAIN day /\ day.isBlockedDay = TRUE

HasAdjustment(day, originalDay) ==
    /\ "adjustment" \in DOMAIN day
    /\ day.adjustment.wasAdjusted = TRUE
    /\ day.adjustment.originalDay = originalDay
    /\ day.adjustment.reason # Undefined

CrossTrainingActivity(day) ==
    IF "crossTraining" \in DOMAIN day THEN day.crossTraining.activity ELSE Undefined

----------------------------------------------------------------------------
(* C1: total coverage - for a template whose role lists cover the seven
   weekdays, the running schedule has an assignment for every weekday and
   every day of the generated week carries a running assignment. *)
C1_TotalCoverage ==
    TemplateRoleDays(template) = Days =>
        /\ Scheduled => DOMAIN runningSchedule = Days
        /\ Done => \A d \in Days : week.days[d].running # NoWorkout

(* C2: 48-hour rule - no day with a lower_body session has a speed-type
   run on the previous day, the next day or the day after next. *)
C2_FortyEightHourRule ==
    Allocated =>
        \A d \in DOMAIN strengthAllocations :
            strengthAllocations[d].type = "lower_body" =>
                /\ RealizedType(DayBefore(d)) \notin SpeedTypes
                /\ RealizedType(DayAfter(d)) \notin SpeedTypes
                /\ RealizedType(DayAfter(DayAfter(d))) \notin SpeedTypes

(* C3: no strength before long run - the day immediately preceding a day
   whose realized run type is long or progression carries no strength
   assignment, also when the long run was moved to the weekend alternate. *)
C3_NoStrengthBeforeLongRun ==
    /\ Allocated =>
          \A d \in Days :
              RealizedType(DayAfter(d)) \in LongTypes => d \notin DOMAIN strengthAllocations
    /\ Done =>
          \A d \in Days :
              week.days[DayAfter(d)].running.type \in LongTypes =>
                  week.days[d].strength = NoSession

\* the long run was moved to the alternate, the allocator ran out of allowed
\* days (six sessions), and the day before the moved long run stayed free
C3_Witness ==
    /\ Done
    /\ LongRunMoved
    /\ week.days[WeekendAlternate(template.longRunDay)].running.type \in LongTypes
    /\ week.strengthDays = 6
    /\ week.days[DayBefore(WeekendAlternate(template.longRunDay))].strength = NoSession

(* C4: every weekday inside a blocked range of type rest gets the running
   assignment Rest and is flagged isBlockedDay = true, whatever its role. *)
C4_BlockedRestDayIsRest ==
    Done =>
        \A d \in Days :
            (DayIsBlocked(d) /\ FirstCoveringRange(d).type = "rest") =>
                /\ week.days[d].running.type = "rest"
                /\ IsBlockedDayFlag(week.days[d])

(* C5: when the template's long-run day is blocked and its weekend
   alternate is not, the alternate carries the long run at the template's
   original distance and no other weekday carries a long run. *)
C5_LongRunOnAlternate ==
    LET alt == WeekendAlternate(template.longRunDay)
    IN  LongRunMoved =>
          /\ Scheduled =>
                /\ alt \in DOMAIN runningSchedule
                /\ runningSchedule[alt].type \in LongTypes
                /\ runningSchedule[alt].totalDistance = template.longRunDistance
                /\ \A d \in Days \ {alt} : RealizedType(d) \notin LongTypes
          /\ Done =>
                /\ week.days[alt].running.type \in LongTypes
                /\ week.days[alt].running.totalDistance = template.longRunDistance
                /\ \A d \in Days \ {alt} : week.days[d].running.type \notin LongTypes

C5_Witness ==
    /\ Done
    /\ LongRunMoved
    /\ week.days[WeekendAlternate(template.longRunDay)].running.type \in LongTypes
    /\ week.days[WeekendAlternate(template.longRunDay)].running.totalDistance = 262

(* C6: when the long run is moved to the weekend alternate, the original
   (blocked) long-run day ends as Rest carrying the block's reason. *)
C6_OriginalDayRestWithReason ==
    (Done /\ LongRunMoved) =>
        /\ week.days[template.longRunDay].running.type = "rest"
        /\ week.days[template.longRunDay].running.notes
              = FirstCoveringRange(template.longRunDay).reason

(* C7: the day that receives a moved long run carries an adjustment record
   (wasAdjusted, originalDay = the template's long-run day, a reason); days
   whose assignment was not moved carry none. *)
C7_AdjustmentRecord ==
    Done =>
        \A d \in Days :
            IF /\ week.days[d].running.type \in LongTypes
               /\ d # template.longRunDay
            THEN HasAdjustment(week.days[d], template.longRunDay)
            ELSE "adjustment" \notin DOMAIN week.days[d]

(* C8: when the long-run day and its weekend alternate are both blocked,
   no day carries a long run and the original long-run day is Rest with
   the reason of the (first) range that blocks it. *)
C8_BothBlockedDegradesToRest ==
    BothWeekendDaysBlocked =>
        /\ Scheduled =>
              /\ \A d \in Days : RealizedType(d) \notin LongTypes
              /\ template.longRunDay \in DOMAIN runningSchedule
              /\ runningSchedule[template.longRunDay].type = "rest"
              /\ runningSchedule[template.longRunDay].notes
                    = FirstCoveringRange(template.longRunDay).reason
        /\ Done =>
              /\ \A d \in Days : week.days[d].running.type \notin LongTypes
              /\ week.days[template.longRunDay].running.type = "rest"
              /\ week.days[template.longRunDay].running.notes
                    = FirstCoveringRange(template.longRunDay).reason

\* two ranges with different reasons cover the original long-run day
C8_Witness ==
    /\ Done
    /\ BothWeekendDaysBlocked
    /\ Cardinality(CoveringRanges(template.longRunDay)) = 2
    /\ blockedDates[1].reason # blockedDates[2].reason
    /\ week.days[template.longRunDay].running.type = "rest"
    /\ week.days[template.longRunDay].running.notes = blockedDates[1].reason

(* C9: a weekday inside a blocked range of type cross-training gets the
   running assignment CrossTraining carrying the range's activity, and the
   day stays a strength candidate when the next day is no long run. *)
C9_CrossTrainingRange ==
    \A d \in Days :
        (DayIsBlocked(d) /\ FirstCoveringRange(d).type = "cross-training") =>
            /\ Done =>
                  /\ week.days[d].running.type = "cross_training"
                  /\ CrossTrainingActivity(week.days[d])
                        = FirstCoveringRange(d).crossTrainingActivity
            /\ (Scheduled /\ RealizedType(DayAfter(d)) \notin LongTypes) =>
                  \E i \in 1..7 :
                      /\ i <= Len(sortedDaysOf(workoutTypesOf(runningSchedule),
                                               strengthPreferences.preferredDays))
                      /\ sortedDaysOf(workoutTypesOf(runningSchedule),
                                      strengthPreferences.preferredDays)[i] = d

(* C10: the number of strength assignments equals min(target, E), E the
   number of weekdays whose next day is not a long/progression run, target
   1 in a recovery week, else pref (base), max(1, pref - 1) (build),
   min(2, ceil(pref / 2)) (peak), 0 (taper, race). *)
C10_StrengthCount ==
    LET pref == strengthPreferences.daysPerWeek
        target == IF isRecoveryWeek THEN 1
                  ELSE CASE phase = "base" -> pref
                         [] phase = "build" -> IF pref - 1 >= 1 THEN pref - 1 ELSE 1
                         [] phase = "peak" -> IF (pref + 1) \div 2 <= 2 THEN (pref + 1) \div 2 ELSE 2
                         [] phase \in {"taper", "race"} -> 0
        E == Cardinality({d \in Days : RealizedType(DayAfter(d)) \notin LongTypes})
        expected == IF target <= E THEN target ELSE E
    IN  /\ Allocated => Cardinality(DOMAIN strengthAllocations) = expected
        /\ Done => week.strengthDays = expected

\* the target (seven) exceeds the six allowed days: six sessions result
C10_Witness ==
    /\ Done
    /\ ~isRecoveryWeek
    /\ phase = "base"
    /\ strengthPreferences.daysPerWeek = 7
    /\ Cardinality({d \in Days : RealizedType(DayAfter(d)) \notin LongTypes}) = 6
    /\ week.strengthDays = 6

(* C11: every strength assignment falls on a weekday of the athlete's
   strength-available day set; a day outside the set never receives a
   strength session. *)
C11_StrengthOnAvailableDays ==
    /\ Allocated => DOMAIN strengthAllocations \subseteq availability.strengthDays
    /\ Done =>
          \A d \in Days :
              week.days[d].strength # NoSession => d \in availability.strengthDays

(* C12: no running workout other than Rest or CrossTraining is assigned to
   a weekday outside the athlete's running-available day set; the long run
   is moved to the weekend alternate only if the alternate is in the set. *)
C12_RunsOnAvailableDays ==
    /\ Scheduled =>
          \A d \in DOMAIN runningSchedule :
              runningSchedule[d].type \notin {"rest", "cross_training"} =>
                  d \in availability.runningDays
    /\ (Scheduled /\ DayIsBlocked(template.longRunDay)
          /\ RealizedType(WeekendAlternate(template.longRunDay)) \in LongTypes) =>
              WeekendAlternate(template.longRunDay) \in availability.runningDays

\* the blocked configuration without its i-th range, and the days a range touches
WithoutRange(ranges, i) == SubSeq(ranges, 1, i - 1) \o SubSeq(ranges, i + 1, Len(ranges))

DaysCoveredBy(range) == {d \in Days : range.start <= DateOfDay(d) /\ DateOfDay(d) <= range.end}

AffectedDays(range) ==
    DaysCoveredBy(range) \cup
        (IF template.longRunDay \in DaysCoveredBy(range)
         THEN {WeekendAlternate(template.longRunDay)} ELSE {})

(* C13: frame effect of a block - for every template and blocked
   configuration, every weekday outside a blocking range (and other than
   the weekend alternate when the range covers the long-run day) has the
   same running assignment, distance included, as in the week generated
   without that range. *)
C13_FrameEffect ==
    Scheduled =>
        \A i \in 1..Len(blockedDates) :
            LET without == generateRunningSchedule(template, phase, isRecoveryWeek, level,
                                                   WithoutRange(blockedDates, i), WeekStart)
            IN  \A d \in Days \ AffectedDays(blockedDates[i]) :
                    /\ has(runningSchedule, d) <=> has(without, d)
                    /\ has(without, d) => runningSchedule[d] = without[d]

\* position of the call (any other exit counts as no progress)
Rank(p) ==
    CASE p = "start" -> 0 [] p = "running" -> 1 [] p = "strength" -> 2 [] p = "done" -> 3
      [] OTHER -> 0

\* what the call holds at each position: maps over the seven weekdays, a week only at the return
WeekResultShape ==
    /\ pc \in {"start", "running", "strength", "done"}
    /\ DOMAIN runningSchedule \subseteq Days
    /\ DOMAIN strengthAllocations \subseteq Days
    /\ Done => (week # NoWeek /\ DOMAIN week.days = Days)
    /\ ~Done => week = NoWeek

(* C14: generateWeek always terminates and returns a week without raising
   an error - for every template, every list of blocked ranges and every
   strength preference, every step of the call moves it one position
   closer to the return (three steps in all, none leading to an error
   exit), the maps never hold more than the seven weekdays, and the
   returned week has all seven days. *)
C14_TerminatesWithWeek == [](WeekResultShape) /\ [][Rank(pc') = Rank(pc) + 1]_vars

\* all seven days blocked by overlapping ranges, no preferred day, seven sessions asked
C14_Witness ==
    /\ Done
    /\ \A d \in Days : DayIsBlocked(d)
    /\ \E d \in Days : Cardinality(CoveringRanges(d)) = 2
    /\ strengthPreferences = StrengthPreferences(7, {})
    /\ DOMAIN week.days = Days

\* days whose run became Rest, or was downgraded to an easy run, because of a block
BecameRest(d) ==
    /\ DayIsBlocked(d)
    /\ d \in {template.longRunDay} \cup {template.easyRunDays[i] : i \in 1..Len(template.easyRunDays)}
             \cup {template.crossTrainingDay}
    /\ RealizedType(d) = "rest"

Downgraded(d) ==
    /\ DayIsBlocked(d)
    /\ d \in {template.qualityDays[i].day : i \in 1..Len(template.qualityDays)}
    /\ RealizedType(d) = "easy"

\* the reason an assignment carries: a Rest in its notes, a downgraded run in its title
CarriedReason(workout) ==
    IF workout.type = "rest" THEN workout.notes
    ELSE IF Len(workout.title) = 3 THEN workout.title[2] ELSE Undefined

StrengthTarget ==
    IF isRecoveryWeek THEN 1
    ELSE CASE phase = "base" -> strengthPreferences.daysPerWeek
           [] phase = "build" -> IF strengthPreferences.daysPerWeek - 1 >= 1
                                 THEN strengthPreferences.daysPerWeek - 1 ELSE 1
           [] phase = "peak" -> IF (strengthPreferences.daysPerWeek + 1) \div 2 <= 2
                                THEN (strengthPreferences.daysPerWeek + 1) \div 2 ELSE 2
           [] phase \in {"taper", "race"} -> 0

UnderAllocated == Done /\ week.strengthDays < StrengthTarget

\* a week-level note, if the week had one
WeekNote(w) == IF "notes" \in DOMAIN w THEN w.notes ELSE Undefined

(* C15 as stated: every degradation carries an explanatory string - each
   run that became Rest or was downgraded because of a blocked range
   carries a non-empty reason, and each week with fewer strength sessions
   than the target carries a string explaining the under-allocation. *)
C15_EveryDegradationExplained ==
    /\ Scheduled =>
          \A d \in Days :
              (BecameRest(d) \/ Downgraded(d)) =>
                  CarriedReason(runningSchedule[d]) \notin {Undefined, ""}
    /\ UnderAllocated => WeekNote(week) \notin {Undefined, ""}

(* C15 amended: each run that became Rest or was downgraded because of a
   blocked range carries the reason of the first range containing its day
   (no reason when that range has none); a week with fewer strength
   sessions than the target carries no string about the under-allocation:
   the week has no note and each session's notes are those of its phase. *)
C15_DegradationCarriesRangeReason ==
    Done =>
        /\ \A d \in Days :
              (BecameRest(d) \/ Downgraded(d)) =>
                  CarriedReason(week.days[d].running) = FirstCoveringRange(d).reason
        /\ UnderAllocated =>
              /\ WeekNote(week) = Undefined
              /\ \A d \in Days :
                    week.days[d].strength.notes \in
                        {Undefined, "Recovery week - lighter weight, fewer sets",
                         "Build phase - reduced volume from base"}

\* one day degraded under a range with a reason, one under a range without,
\* and six sessions where seven were asked
C15_Witness ==
    /\ UnderAllocated
    /\ \E d \in Days : BecameRest(d) /\ week.days[d].running.notes = "Conference"
    /\ \E d \in Days : BecameRest(d) /\ FirstCoveringRange(d).reason = Undefined
                          /\ week.days[d].running.notes = Undefined
    /\ \E d \in Days : Downgraded(d) /\ week.days[d].running.title[2] = "Conference"

----------------------------------------------------------------------------
(* generateWeek on templates whose quality slot names a weekend day: the
   WeekTemplate type lets a quality slot name any weekday, the long-run
   day and its weekend alternate included. *)

\* base week 3 with the fartlek on the long-run day
QualityOnLongRunDayTemplate ==
    WeekTemplate("sunday", 120, <<Quality("sunday", "fartlek", 60)>>,
                 <<"monday", "tuesday", "wednesday", "friday">>, <<"thursday">>, "saturday")

\* base week 3 with the fartlek on the long run's weekend alternate
QualityOnAlternateTemplate ==
    WeekTemplate("sunday", 120, <<Quality("saturday", "fartlek", 60)>>,
                 <<"monday", "tuesday", "wednesday", "friday">>, <<"thursday">>, Undefined)

WeekendQualityTemplates == {QualityOnLongRunDayTemplate, QualityOnAlternateTemplate}

InitOverlap ==
    /\ pc = "start"
    /\ template \in WeekendQualityTemplates
    /\ phase \in Phases
    /\ isRecoveryWeek \in BOOLEAN
    /\ level \in Levels
    /\ blockedDates \in BlockedDateLists
    /\ strengthPreferences \in
          {StrengthPreferences(n, p) : n \in 0..MaxPref, p \in PreferredDaySets}
    /\ availability \in AvailableDaySets
    /\ runningSchedule = EmptyMap
    /\ strengthAllocations = [d \in {} |-> NoAllocation]
    /\ week = NoWeek
    /\ call = NoCall
    /\ ret = NoCall

SpecOverlap == InitOverlap /\ [][Next]_vars

(* C16: the long run is never silently dropped - for every template with
   long-run distance > 0 and every blocked configuration in which the
   long-run day or its weekend alternate is unblocked, the final running
   schedule contains exactly one long-run assignment, also when a quality
   slot names the same weekday. *)
C16_LongRunNeverDropped ==
    (/\ template.longRunDistance > 0
     /\ ~BothWeekendDaysBlocked) =>
        /\ Scheduled => Cardinality({d \in Days : RealizedType(d) \in LongTypes}) = 1
        /\ Done => Cardinality({d \in Days : week.days[d].running.type \in LongTypes}) = 1

(* C17: no strength assignment is placed on a weekday whose date falls
   inside a blocked range of type rest - on such a day no workout of any
   kind, running or strength, is scheduled. *)
C17_NoWorkoutOnRestBlockedDay ==
    \A d \in Days :
        (DayIsBlocked(d) /\ FirstCoveringRange(d).type = "rest") =>
            /\ Allocated => d \notin DOMAIN strengthAllocations
            /\ Done =>
                  /\ week.days[d].strength = NoSession
                  /\ week.days[d].running = NoWorkout
                        \/ week.days[d].running.type = "rest"

\* the level/phase default easy distance, in tenths of a mile
DefaultEasyDistance ==
    (CASE level = "conservative" -> 30 [] level = "moderate" -> 40 [] level = "ambitious" -> 50)
      + (CASE phase = "peak" -> 10 [] phase = "taper" -> -10 [] OTHER -> 0)

QualitySlotDays == {template.qualityDays[i].day : i \in 1..Len(template.qualityDays)}

(* C18: for each quality slot of the template - if its day is blocked,
   that day gets an easy run whose distance is the level/phase default
   easy distance minus one mile (at least one mile) and whose title carries
   the block reason; if its day is not blocked, that day gets the quality
   workout; no quality-type workout appears on a weekday that is not a
   template quality day. *)
C18_QualitySlots ==
    Done =>
        /\ \A i \in 1..Len(template.qualityDays) :
              LET slot == template.qualityDays[i]
                  run == week.days[slot.day].running
              IN  IF DayIsBlocked(slot.day)
                  THEN /\ run.type = "easy"
                       /\ run.totalDistance = DefaultEasyDistance - 10
                       /\ run.totalDistance >= 10
                       /\ run.title = <<"Easy Run (adjusted: ",
                                        FirstCoveringRange(slot.day).reason, ")">>
                  ELSE run.type = slot.type
        /\ \A d \in Days \ QualitySlotDays : week.days[d].running.type \notin SpeedTypes

\* a blocked quality day in a conservative taper week: a one-mile easy run
C18_Witness ==
    /\ Done
    /\ level = "conservative"
    /\ phase = "taper"
    /\ Len(template.qualityDays) = 2
    /\ DayIsBlocked("tuesday")
    /\ ~DayIsBlocked("sunday")
    /\ week.days["tuesday"].running.type = "easy"
    /\ week.days["tuesday"].running.totalDistance = 10
    /\ week.days["tuesday"].running.title = <<"Easy Run (adjusted: ", "Conference", ")">>
    /\ week.days["thursday"].running.type = "easy"
    /\ week.days["sunday"].running.type \in LongTypes

----------------------------------------------------------------------------
(* The helpers called on their own: the arguments are drawn at the start,
   one step applies the function. *)

MaxDate == 2

\* calendar dates around and inside the ranges
CheckDates == (0 - 1)..(MaxDate + 1)

\* ranges with every pair of endpoints, with and without a reason
BlockedDateRanges ==
    {Range(s, e, r, "rest", Undefined) : s \in 0..MaxDate, e \in 0..MaxDate, r \in {"Travel", Undefined}}

RunTypes ==
    {"rest", "easy", "long", "tempo", "intervals", "fartlek", "race_pace", "recovery",
     "cross_training", "hill_repeats", "progression"}

\* run-type maps over the three days around a day, any of them absent
WeekWorkoutsAround(day) ==
    LET near == {getPreviousDay(day), getNextDay(day), getNextDay(getNextDay(day))}
    IN  UNION {[keys -> RunTypes] : keys \in SUBSET near}

IsDateBlockedCalls ==
    {[fn |-> "isDateBlocked", date |-> date, blockedDates |-> ranges] :
        date \in CheckDates, ranges \in SeqsUpTo(BlockedDateRanges, MaxRanges)}

CanDoHeavyLegsCalls ==
    UNION {{[fn |-> "canDoHeavyLegs", day |-> day, weekWorkouts |-> w] : w \in WeekWorkoutsAround(day)} :
              day \in Days}

InitPure ==
    /\ pc = "call"
    /\ call \in IsDateBlockedCalls \cup CanDoHeavyLegsCalls
    /\ ret = NoCall
    /\ template = BaseWeek3Template
    /\ phase = "base"
    /\ isRecoveryWeek = FALSE
    /\ level = "moderate"
    /\ blockedDates = <<>>
    /\ strengthPreferences = StrengthPreferences(0, {})
    /\ availability \in AvailableDaySets
    /\ runningSchedule = EmptyMap
    /\ strengthAllocations = [d \in {} |-> NoAllocation]
    /\ week = NoWeek

IsDateBlocked ==
    /\ pc = "call"
    /\ call.fn = "isDateBlocked"
    /\ ret' = isDateBlocked(call.date, call.blockedDates)
    /\ pc' = "returned"
    /\ UNCHANGED <<inputs, runningSchedule, strengthAllocations, week, call>>

CanDoHeavyLegs ==
    /\ pc = "call"
    /\ call.fn = "canDoHeavyLegs"
    /\ ret' = canDoHeavyLegs(call.day, call.weekWorkouts)
    /\ pc' = "returned"
    /\ UNCHANGED <<inputs, runningSchedule, strengthAllocations, week, call>>

NextPure == IsDateBlocked \/ CanDoHeavyLegs

SpecPure == InitPure /\ [][NextPure]_vars

Returned(fn) == pc = "returned" /\ call.fn = fn

(* C19: isDateBlocked(date, ranges) returns blocked = true exactly when
   some range has start <= date <= end (both ends inclusive), with the
   reason of the first such range in list order, also when later ranges
   contain the date; otherwise blocked = false with no reason. *)
C19_IsDateBlocked ==
    Returned("isDateBlocked") =>
        LET ranges == call.blockedDates
            Contains(i) == ranges[i].start <= call.date /\ call.date <= ranges[i].end
        IN  IF \E i \in 1..Len(ranges) : Contains(i)
            THEN /\ ret.blocked = TRUE
                 /\ \E i \in 1..Len(ranges) :
                       /\ Contains(i)
                       /\ \A j \in 1..(i - 1) : ~Contains(j)
                       /\ ret.reason = ranges[i].reason
            ELSE /\ ret.blocked = FALSE
                 /\ ret.reason = Undefined

\* the date is the last day of the first range and a later range with
\* another reason contains it too
C19_Witness ==
    /\ Returned("isDateBlocked")
    /\ Len(call.blockedDates) = 2
    /\ call.blockedDates[1].start < call.blockedDates[1].end
    /\ call.date = call.blockedDates[1].end
    /\ call.blockedDates[2].start <= call.date /\ call.date <= call.blockedDates[2].end
    /\ call.blockedDates[1].reason = "Travel"
    /\ call.blockedDates[2].reason = Undefined
    /\ ret = [blocked |-> TRUE, reason |-> "Travel"]

(* C20: for every weekday d and every day-to-run-type map,
   canDoHeavyLegs(d) is false exactly when the next day is a long or
   progression run, or the previous day, the next day or the day after
   next carries a speed-type run; it is true in every other case. *)
C20_CanDoHeavyLegs ==
    Returned("canDoHeavyLegs") =>
        LET w == call.weekWorkouts
            typeOn(d) == IF d \in DOMAIN w THEN w[d] ELSE Undefined
            d1 == DayAfter(call.day)
        IN  ret = ~(\/ typeOn(d1) \in LongTypes
                    \/ typeOn(DayBefore(call.day)) \in SpeedTypes
                    \/ typeOn(d1) \in SpeedTypes
                    \/ typeOn(DayAfter(d1)) \in SpeedTypes)

----------------------------------------------------------------------------
(* Order, type and timing of the strength sessions of the returned week *)

HasSession(d) == week.days[d].strength.scheduled = TRUE

\* strength is allowed on a day whose next day is no long run
StrengthAllowed(d) == week.days[DayAfter(d)].running.type \notin LongTypes

Preferred(d) == d \in strengthPreferences.preferredDays

(* C21: strength sessions are placed in candidate order, preferred days
   first and ties in Monday..Sunday order - a non-preferred day receives a
   session only if every preferred day on which strength is allowed
   received one, and among days of the same preference class an earlier
   allowed weekday is never skipped in favour of a later one. *)
C21_CandidateOrder ==
    Done =>
        \A d \in Days :
            HasSession(d) =>
                /\ ~Preferred(d) =>
                      \A p \in Days : (Preferred(p) /\ StrengthAllowed(p)) => HasSession(p)
                /\ \A e \in Days :
                      (/\ Preferred(e) = Preferred(d)
                       /\ StrengthAllowed(e)
                       /\ DateOfDay(e) < DateOfDay(d)) => HasSession(e)

\* four sessions with Tuesday, Thursday and Saturday preferred: the three
\* preferred days and Monday get one, Wednesday does not
C21_Witness ==
    /\ Done
    /\ strengthPreferences.preferredDays = {"tuesday", "thursday", "saturday"}
    /\ week.strengthDays = 4
    /\ HasSession("tuesday") /\ HasSession("thursday") /\ HasSession("saturday")
    /\ HasSession("monday")
    /\ StrengthAllowed("wednesday") /\ ~HasSession("wednesday")

\* the returned week's strength type of a day, Undefined without a session
SessionType(d) == week.days[d].strength.type

\* the scheduler's heavy-legs test: neither neighbour is a speed run and
\* the next day is no long run
HeavyLegsAllowed(d) ==
    /\ week.days[DayBefore(d)].running.type \notin SpeedTypes
    /\ week.days[DayAfter(d)].running.type \notin SpeedTypes
    /\ week.days[DayAfter(d)].running.type \notin LongTypes

\* the sessions placed before day d in candidate order (preferred days first)
PlacedBefore(d) ==
    {e \in Days :
        /\ HasSession(e)
        /\ \/ Preferred(e) /\ ~Preferred(d)
           \/ Preferred(e) = Preferred(d) /\ DateOfDay(e) < DateOfDay(d)}

(* C22: in a non-recovery week outside the peak phase, walking the ordered
   candidates - the first candidate on which heavy legs are allowed while
   no lower-body session is placed gets lower_body; any other candidate
   gets upper_body if no upper-body session is placed yet, else core; a
   week has at most one lower_body and at most one upper_body session. *)
C22_SessionTypes ==
    (Done /\ ~isRecoveryWeek /\ phase # "peak") =>
        /\ \A d \in Days :
              HasSession(d) =>
                  SessionType(d) =
                      IF /\ HeavyLegsAllowed(d)
                         /\ \A e \in PlacedBefore(d) : SessionType(e) # "lower_body"
                      THEN "lower_body"
                      ELSE IF \A e \in PlacedBefore(d) : SessionType(e) # "upper_body"
                           THEN "upper_body"
                           ELSE "core"
        /\ Cardinality({d \in Days : SessionType(d) = "lower_body"}) <= 1
        /\ Cardinality({d \in Days : SessionType(d) = "upper_body"}) <= 1

\* heavy legs are not allowed on the first candidate: it gets upper_body,
\* a later candidate gets lower_body and the rest core
C22_Witness ==
    /\ Done /\ ~isRecoveryWeek /\ phase = "base"
    /\ strengthPreferences.preferredDays = {}
    /\ ~HeavyLegsAllowed("monday")
    /\ SessionType("monday") = "upper_body"
    /\ \E d \in Days : SessionType(d) = "lower_body"
    /\ \E d \in Days : SessionType(d) = "core"

(* C23: for every strength session placed outside recovery weeks and the
   peak phase, the timing is the after-run value exactly when that
   weekday's running assignment is an actual run, and the any-time value
   when the day has no run (Rest, CrossTraining or no assignment). *)
C23_SessionTiming ==
    (Done /\ ~isRecoveryWeek /\ phase # "peak") =>
        \A d \in Days :
            HasSession(d) =>
                week.days[d].strength.timing =
                    IF week.days[d].running.type \in {"rest", "cross_training", Undefined}
                    THEN "Any time" ELSE "After run"

(* C24: generateWeek and generateRunningSchedule leave their inputs
   unchanged - no step of the call changes the template (long-run day,
   long-run distance, quality, easy and rest lists), the blocked-range
   list or the strength preferences, also when the long run is moved or
   zeroed. *)
C24_InputsUnchanged ==
    [][/\ template' = template
       /\ blockedDates' = blockedDates
       /\ strengthPreferences' = strengthPreferences]_vars

\* the long run was moved to Saturday and the template still names Sunday
C24_Witness ==
    /\ Done
    /\ LongRunMoved
    /\ template.longRunDay = "sunday"
    /\ template.longRunDistance = 120
    /\ week.days["saturday"].running.type \in LongTypes
    /\ week.days["saturday"].running.totalDistance = 120

(***************************************************************************)
(* Blocked dates typed as text: parseBlockedDates and its helpers.  A      *)
(* segment is what the regular expressions of parseDateSegment capture     *)
(* from one piece of the split text: the form that matched first and its   *)
(* numbers.  A date string 'YYYY-MM-DD' with both fields padded to two     *)
(* digits is the number YYYYMMDD, which orders as the padded strings do.   *)
(***************************************************************************)
RaceYear == 2026

RaceMonth == 4

MaxSegments == 1

SegmentMonths == {2, 4, 5, 12}

SegmentDays == {3, 22}

SegmentReasons == {Undefined, "Travel"}

formatDate(year, month, day) == year * 10000 + month * 100 + day

determineYear(month) == IF month > RaceMonth THEN RaceYear - 1 ELSE RaceYear

Segments ==
    LET forms ==
               {[form |-> "monthRange", month |-> m, startDay |-> d1, endDay |-> d2] :
                    m \in SegmentMonths, d1 \in SegmentDays, d2 \in SegmentDays}
          \cup {[form |-> "singleDay", month |-> m, day |-> d] :
                    m \in SegmentMonths, d \in SegmentDays}
          \cup {[form |-> "numericRange", startMonth |-> m1, startDay |-> d1,
                                          endMonth |-> m2, endDay |-> d2] :
                    m1 \in SegmentMonths, d1 \in SegmentDays,
                    m2 \in SegmentMonths, d2 \in SegmentDays}
          \cup {[form |-> "numericSingle", month |-> m, day |-> d] :
                    m \in SegmentMonths, d \in SegmentDays}
          \cup {[form |-> "none"]}
    IN  {[match |-> f, reason |-> r] : f \in forms, r \in SegmentReasons}

Parsed(segment) == segment.match.form # "none"

parseDateSegment(segment) ==
    LET m == segment.match
    IN  CASE m.form = "monthRange" ->
               LET year == determineYear(m.month)
               IN  [start |-> formatDate(year, m.month, m.startDay),
                    end |-> formatDate(year, m.month, m.endDay),
                    reason |-> segment.reason]
          [] m.form = "singleDay" ->
               LET date == formatDate(determineYear(m.month), m.month, m.day)
               IN  [start |-> date, end |-> date, reason |-> segment.reason]
          [] m.form = "numericRange" ->
               LET startYear == determineYear(m.startMonth)
                   endYear == determineYear(m.endMonth)
               IN  [start |-> formatDate(startYear, m.startMonth, m.startDay),
                    end |-> formatDate(endYear, m.endMonth, m.endDay),
                    reason |-> segment.reason]
          [] m.form = "numericSingle" ->
               LET date == formatDate(determineYear(m.month), m.month, m.day)
               IN  [start |-> date, end |-> date, reason |-> segment.reason]

RECURSIVE parseBlockedDates(_)
parseBlockedDates(segments) ==
    IF segments = <<>> THEN <<>>
    ELSE IF Parsed(Head(segments))
         THEN <<parseDateSegment(Head(segments))>> \o parseBlockedDates(Tail(segments))
         ELSE parseBlockedDates(Tail(segments))

ParseBlockedDatesCalls ==
    {[fn |-> "parseBlockedDates", segments |-> s] : s \in SeqsUpTo(Segments, MaxSegments)}

ParseBlockedDates ==
    /\ pc = "call"
    /\ call.fn = "parseBlockedDates"
    /\ ret' = parseBlockedDates(call.segments)
    /\ pc' = "returned"
    /\ UNCHANGED <<inputs, runningSchedule, strengthAllocations, week, call>>

(***************************************************************************)
(* The plan calendar: date-math.  A date is a day number; day 0 is Monday  *)
(* 2025-11-17, so RACE_DATE, Sunday 2026-04-26, is day 160 and a date's    *)
(* weekday is its remainder modulo 7 (0 = Monday).  The products           *)
(* totalWeeks * (4 / 15), (10 / 15) and (13 / 15) are doubles in the code; *)
(* their ceilings are those of the exact quotients for every plan length   *)
(* the clamp allows.                                                       *)
(***************************************************************************)
RACE_DATE == 160

MinPlanWeeks == 8

MaxPlanWeeks == 20

MaxDaysAfterRace == 7

StartDates == 0..(RACE_DATE + MaxDaysAfterRace)

Ceil(a, b) == -((-a) \div b)

differenceInDays(later, earlier) == later - earlier

getMondayOfWeek(date) == date - (date % 7)

getWeeksUntilRace(fromDate) == Ceil(differenceInDays(RACE_DATE, fromDate), 7)

calculatePlanWeeks(startDate) ==
    LET weeksUntilRace == getWeeksUntilRace(startDate)
    IN  IF weeksUntilRace < MinPlanWeeks THEN MinPlanWeeks
        ELSE IF weeksUntilRace > MaxPlanWeeks THEN MaxPlanWeeks
        ELSE weeksUntilRace

getPhaseForWeek_NoRaceWeek(weekNumber, totalWeeks) ==
    LET baseEnd == Ceil(totalWeeks * 4, 15)
        buildEnd == Ceil(totalWeeks * 10, 15)
        peakEnd == Ceil(totalWeeks * 13, 15)
    IN  IF weekNumber <= baseEnd THEN "base"
        ELSE IF weekNumber <= buildEnd THEN "build"
        ELSE IF weekNumber <= peakEnd THEN "peak"
        ELSE "taper"

getPhaseForWeek(weekNumber, totalWeeks) ==
    IF weekNumber = totalWeeks THEN "race"
    ELSE LET baseEnd == Ceil(totalWeeks * 4, 15)
             buildEnd == Ceil(totalWeeks * 10, 15)
             peakEnd == Ceil(totalWeeks * 13, 15)
         IN  IF weekNumber <= baseEnd THEN "base"
             ELSE IF weekNumber <= buildEnd THEN "build"
             ELSE IF weekNumber <= peakEnd THEN "peak"
             ELSE "taper"

dateMath_isRecoveryWeek(weekNumber, totalWeeks) ==
    IF weekNumber = 1 THEN FALSE
    ELSE LET weekPhase == getPhaseForWeek(weekNumber, totalWeeks)
             baseEnd == Ceil(totalWeeks * 4, 15)
             buildEnd == Ceil(totalWeeks * 10, 15)
             buildStart == baseEnd + 1
             weeksIntoBuild == weekNumber - buildStart
         IN  IF weekPhase \in {"taper", "race"} THEN FALSE
             ELSE IF totalWeeks = 15 THEN weekNumber \in {4, 7, 10}
             ELSE IF weekNumber = baseEnd THEN TRUE
             ELSE IF weekPhase = "build" THEN weeksIntoBuild > 0 /\ weeksIntoBuild % 3 = 2
             ELSE FALSE

generateWeekSchedule(startDate) ==
    LET monday == getMondayOfWeek(startDate)
        totalWeeks == calculatePlanWeeks(startDate)
    IN  [i \in 1..totalWeeks |->
            [weekNumber |-> i,
             weeksUntilRace |-> totalWeeks - i + 1,
             startDate |-> monday + 7 * (i - 1),
             endDate |-> monday + 7 * (i - 1) + 6,
             phase |-> getPhaseForWeek(i, totalWeeks),
             isRecoveryWeek |-> dateMath_isRecoveryWeek(i, totalWeeks)]]

GenerateWeekScheduleCalls ==
    {[fn |-> "generateWeekSchedule", startDate |-> d] : d \in StartDates}

GenerateWeekSchedule ==
    /\ pc = "call"
    /\ call.fn = "generateWeekSchedule"
    /\ ret' = generateWeekSchedule(call.startDate)
    /\ pc' = "returned"
    /\ UNCHANGED <<inputs, runningSchedule, strengthAllocations, week, call>>

(***************************************************************************)
(* Heart-rate zones: hr-zones.  A heart rate that is not given (undefined, *)
(* or 0: both are falsy in the tests of calculateHRZones) is written 0.    *)
(* RoundPercent(x) is Math.round(x / 100) for a whole number x.            *)
(***************************************************************************)
MAX_HR_ZONES ==
    << [name |-> "Recovery", minPercent |-> 50, maxPercent |-> 60,
        purpose |-> "Active recovery, blood flow promotion"],
       [name |-> "Aerobic/Easy", minPercent |-> 60, maxPercent |-> 70,
        purpose |-> "Build aerobic base - 80% of training should be here"],
       [name |-> "Tempo", minPercent |-> 70, maxPercent |-> 80,
        purpose |-> "Improve lactate clearance, marathon pace"],
       [name |-> "Threshold", minPercent |-> 80, maxPercent |-> 90,
        purpose |-> "Raise lactate threshold, race fitness"],
       [name |-> "VO2max", minPercent |-> 90, maxPercent |-> 100,
        purpose |-> "Maximum aerobic capacity - short intervals only"] >>

LTHR_ZONES ==
    << [name |-> "Recovery", minPercent |-> 65, maxPercent |-> 80,
        purpose |-> "Active recovery, very easy"],
       [name |-> "Aerobic/Easy", minPercent |-> 80, maxPercent |-> 90,
        purpose |-> "Build aerobic base - conversational"],
       [name |-> "Tempo", minPercent |-> 90, maxPercent |-> 100,
        purpose |-> "Comfortably hard, threshold pace"],
       [name |-> "Threshold", minPercent |-> 100, maxPercent |-> 105,
        purpose |-> "At or just above threshold"],
       [name |-> "VO2max", minPercent |-> 105, maxPercent |-> 115,
        purpose |-> "Near maximum - short intervals"] >>

HRR_ZONES == MAX_HR_ZONES

RoundPercent(x) == (2 * x + 100) \div 200

createZone(def, referenceHR, maxHR, restingHR, useHRR) ==
    LET reserve == maxHR - restingHR
        minHR == IF useHRR /\ restingHR > 0
                 THEN RoundPercent(reserve * def.minPercent + 100 * restingHR)
                 ELSE RoundPercent(referenceHR * def.minPercent)
        maxHRVal == IF useHRR /\ restingHR > 0
                    THEN RoundPercent(reserve * def.maxPercent + 100 * restingHR)
                    ELSE RoundPercent(referenceHR * def.maxPercent)
    IN  [name |-> def.name,
         minHR |-> minHR,
         maxHR |-> Min(maxHRVal, maxHR),
         percentMaxHR |-> <<def.minPercent, "-", def.maxPercent, "%">>,
         purpose |-> def.purpose]

createZoneFromLTHR(def, lthr, maxHR) ==
    [name |-> def.name,
     minHR |-> RoundPercent(lthr * def.minPercent),
     maxHR |-> Min(RoundPercent(lthr * def.maxPercent), maxHR),
     percentMaxHR |-> <<def.minPercent, "-", def.maxPercent, "% LTHR">>,
     purpose |-> def.purpose]

calculateZonesFromMaxHR(maxHR) ==
    [zone1 |-> createZone(MAX_HR_ZONES[1], maxHR, maxHR, 0, FALSE),
     zone2 |-> createZone(MAX_HR_ZONES[2], maxHR, maxHR, 0, FALSE),
     zone3 |-> createZone(MAX_HR_ZONES[3], maxHR, maxHR, 0, FALSE),
     zone4 |-> createZone(MAX_HR_ZONES[4], maxHR, maxHR, 0, FALSE),
     zone5 |-> createZone(MAX_HR_ZONES[5], maxHR, maxHR, 0, FALSE)]

calculateZonesFromLTHR(lthr, maxHR) ==
    [zone1 |-> createZoneFromLTHR(LTHR_ZONES[1], lthr, maxHR),
     zone2 |-> createZoneFromLTHR(LTHR_ZONES[2], lthr, maxHR),
     zone3 |-> createZoneFromLTHR(LTHR_ZONES[3], lthr, maxHR),
     zone4 |-> createZoneFromLTHR(LTHR_ZONES[4], lthr, maxHR),
     zone5 |-> createZoneFromLTHR(LTHR_ZONES[5], lthr, maxHR)]

calculateZonesFromHRR(maxHR, restingHR) ==
    [zone1 |-> createZone(HRR_ZONES[1], maxHR, maxHR, restingHR, TRUE),
     zone2 |-> createZone(HRR_ZONES[2], maxHR, maxHR, restingHR, TRUE),
     zone3 |-> createZone(HRR_ZONES[3], maxHR, maxHR, restingHR, TRUE),
     zone4 |-> createZone(HRR_ZONES[4], maxHR, maxHR, restingHR, TRUE),
     zone5 |-> createZone(HRR_ZONES[5], maxHR, maxHR, restingHR, TRUE)]

calculateHRZones(hrData) ==
    IF hrData.lthr # 0 THEN calculateZonesFromLTHR(hrData.lthr, hrData.maxHR)
    ELSE IF hrData.restingHR # 0 THEN calculateZonesFromHRR(hrData.maxHR, hrData.restingHR)
    ELSE calculateZonesFromMaxHR(hrData.maxHR)

HeartRateData ==
    [maxHR : {180, 192}, restingHR : {0, 50, 60}, lthr : {0, 160, 168}]

CalculateHRZonesCalls ==
    {[fn |-> "calculateHRZones", hrData |-> h] : h \in HeartRateData}

CalculateHRZones ==
    /\ pc = "call"
    /\ call.fn = "calculateHRZones"
    /\ ret' = calculateHRZones(call.hrData)
    /\ pc' = "returned"
    /\ UNCHANGED <<inputs, runningSchedule, strengthAllocations, week, call>>

(***************************************************************************)
(* The phase generators and the pairing of weeks with templates in         *)
(* generateWeeks.  Array index i of the code is position i + 1 here.       *)
(***************************************************************************)
PhaseTemplate(focus, longRunDistance, qualityDays, restDays, crossTrainingDay, totalMileage) ==
    [focus |-> focus, longRunDay |-> "sunday", longRunDistance |-> longRunDistance,
     qualityDays |-> qualityDays, easyRunDays |-> <<"monday", "wednesday", "friday">>,
     restDays |-> restDays, crossTrainingDay |-> crossTrainingDay,
     totalMileage |-> totalMileage]

BASE_LONG_RUNS ==
    [conservative |-> <<80, 90, 100, 70>>, moderate |-> <<90, 100, 120, 80>>,
     ambitious |-> <<100, 120, 140, 100>>]

BASE_WEEKLY_MILEAGE ==
    [conservative |-> <<220, 250, 280, 200>>, moderate |-> <<250, 280, 320, 240>>,
     ambitious |-> <<300, 350, 400, 300>>]

BUILD_LONG_RUNS ==
    [conservative |-> <<120, 120, 100, 140, 150, 120>>, moderate |-> <<130, 130, 100, 140, 180, 120>>,
     ambitious |-> <<150, 150, 120, 160, 200, 140>>]

BUILD_WEEKLY_MILEAGE ==
    [conservative |-> <<280, 280, 220, 320, 350, 260>>, moderate |-> <<300, 350, 260, 350, 400, 300>>,
     ambitious |-> <<380, 420, 320, 450, 500, 380>>]

PEAK_LONG_RUNS ==
    [conservative |-> <<180, 160, 120>>, moderate |-> <<200, 160, 120>>,
     ambitious |-> <<220, 180, 140>>]

PEAK_WEEKLY_MILEAGE ==
    [conservative |-> <<350, 320, 280>>, moderate |-> <<440, 400, 350>>,
     ambitious |-> <<520, 480, 420>>]

TAPER_LONG_RUNS ==
    [conservative |-> <<80, 0>>, moderate |-> <<100, 0>>, ambitious |-> <<120, 0>>]

TAPER_WEEKLY_MILEAGE ==
    [conservative |-> <<180, 120>>, moderate |-> <<250, 150>>, ambitious |-> <<300, 180>>]

generateBasePhase(numWeeks, lvl) ==
    LET longRuns == BASE_LONG_RUNS[lvl]
        mileages == BASE_WEEKLY_MILEAGE[lvl]
        Week(n) ==
            LET i == n - 1
                isRecovery == i = numWeeks - 1 /\ numWeeks >= 4
                weekIndex == Min(i, Len(longRuns) - 1)
                longRunDistance == IF isRecovery THEN longRuns[Len(longRuns)]
                                   ELSE longRuns[weekIndex + 1]
                totalMileage == IF isRecovery THEN mileages[Len(mileages)]
                                ELSE mileages[weekIndex + 1]
            IN  IF i = 0
                THEN PhaseTemplate("Building aerobic foundation, establishing routine",
                         longRunDistance, <<Quality("tuesday", "intervals", 50)>>,
                         <<"thursday">>, "saturday", totalMileage)
                ELSE IF i = 1
                THEN PhaseTemplate("Continue building base, introduce tempo",
                         longRunDistance, <<Quality("tuesday", "tempo", UndefinedDistance)>>,
                         <<"thursday">>, "saturday", totalMileage)
                ELSE IF i = 2 \/ (i > 2 /\ ~isRecovery)
                THEN PhaseTemplate("Peak base week, longest base phase volume",
                         longRunDistance, <<Quality("tuesday", "fartlek", 60)>>,
                         <<"thursday">>, "saturday", totalMileage)
                ELSE PhaseTemplate("RECOVERY WEEK - Absorb base training, prepare for build phase",
                         longRunDistance, <<Quality("tuesday", "tempo", UndefinedDistance)>>,
                         <<"thursday", "saturday">>, Undefined, totalMileage)
    IN  [n \in 1..numWeeks |-> Week(n)]

generateBuildPhase(numWeeks, lvl) ==
    LET longRuns == BUILD_LONG_RUNS[lvl]
        mileages == BUILD_WEEKLY_MILEAGE[lvl]
        Week(n) ==
            LET i == n - 1
                isRecovery == i = 2 \/ i = numWeeks - 1
                weekIndex == Min(i, Len(longRuns) - 1)
                longRunDistance == longRuns[weekIndex + 1]
                totalMileage == mileages[weekIndex + 1]
            IN  IF i = 0
                THEN PhaseTemplate("Start build phase, introduce hill repeats",
                         longRunDistance, <<Quality("tuesday", "hill_repeats", UndefinedDistance)>>,
                         <<"thursday", "saturday">>, Undefined, totalMileage)
                ELSE IF i = 1
                THEN PhaseTemplate("Continue building intensity",
                         longRunDistance, <<Quality("tuesday", "tempo", UndefinedDistance)>>,
                         <<"thursday">>, "saturday", totalMileage)
                ELSE IF i = 2
                THEN PhaseTemplate("RECOVERY WEEK - Absorb build training",
                         longRunDistance, <<Quality("tuesday", "intervals", UndefinedDistance)>>,
                         <<"thursday", "saturday">>, Undefined, totalMileage)
                ELSE IF i = 3 \/ i = 4
                THEN PhaseTemplate(IF i = 4 THEN "Peak build week - highest build phase volume"
                                   ELSE "Resume build - increase volume",
                         longRunDistance,
                         <<Quality("tuesday", IF i = 4 THEN "intervals" ELSE "tempo", UndefinedDistance)>>,
                         <<"thursday">>, "saturday", totalMileage)
                ELSE IF i = 5 \/ isRecovery
                THEN PhaseTemplate("RECOVERY WEEK - Final recovery before peak phase",
                         longRunDistance, <<Quality("tuesday", "tempo", UndefinedDistance)>>,
                         <<"thursday", "saturday">>, Undefined, totalMileage)
                ELSE PhaseTemplate("Build phase - continue progression",
                         longRunDistance, <<Quality("tuesday", "tempo", UndefinedDistance)>>,
                         <<"thursday">>, "saturday", totalMileage)
    IN  [n \in 1..numWeeks |-> Week(n)]

generatePeakPhase(numWeeks, lvl) ==
    LET longRuns == PEAK_LONG_RUNS[lvl]
        mileages == PEAK_WEEKLY_MILEAGE[lvl]
        Week(n) ==
            LET i == n - 1
                weekIndex == Min(i, Len(longRuns) - 1)
                longRunDistance == longRuns[weekIndex + 1]
                totalMileage == mileages[weekIndex + 1]
            IN  IF i = 0
                THEN PhaseTemplate("PEAK WEEK - Highest volume, longest long run",
                         longRunDistance, <<Quality("tuesday", "tempo", UndefinedDistance)>>,
                         <<"thursday">>, "saturday", totalMileage)
                ELSE IF i = 1
                THEN PhaseTemplate("Race simulation long run with marathon pace finish",
                         longRunDistance, <<Quality("tuesday", "intervals", UndefinedDistance)>>,
                         <<"thursday", "saturday">>, Undefined, totalMileage)
                ELSE IF i = 2
                THEN PhaseTemplate("Final hard week before taper begins",
                         longRunDistance, <<Quality("tuesday", "tempo", UndefinedDistance)>>,
                         <<"thursday", "saturday">>, Undefined, totalMileage)
                ELSE PhaseTemplate("Peak phase - race-specific fitness",
                         longRunDistance, <<Quality("tuesday", "tempo", UndefinedDistance)>>,
                         <<"thursday">>, "saturday", totalMileage)
    IN  [n \in 1..numWeeks |-> Week(n)]

raceWeekTemplate(lvl) ==
    [focus |-> "RACE WEEK - Rest, hydrate, trust your training",
     longRunDay |-> "saturday", longRunDistance |-> 262,
     qualityDays |-> <<Quality("tuesday", "intervals", 30)>>,
     easyRunDays |-> <<"monday", "wednesday", "friday">>,
     restDays |-> <<"thursday", "sunday">>, crossTrainingDay |-> Undefined,
     totalMileage |-> TAPER_WEEKLY_MILEAGE[lvl][2] + 262]

generateTaperPhase(numWeeks, lvl) ==
    LET longRuns == TAPER_LONG_RUNS[lvl]
        mileages == TAPER_WEEKLY_MILEAGE[lvl]
        Week(n) ==
            LET i == n - 1
                isRaceWeek == i = numWeeks - 1
                weekIndex == Min(i, Len(longRuns) - 1)
                longRunDistance == longRuns[weekIndex + 1]
                totalMileage == mileages[weekIndex + 1]
            IN  IF isRaceWeek THEN raceWeekTemplate(lvl)
                ELSE IF i = 0
                THEN PhaseTemplate("TAPER BEGINS - Reduce volume, maintain sharpness",
                         longRunDistance, <<Quality("tuesday", "intervals", 40)>>,
                         <<"thursday", "saturday">>, Undefined, totalMileage)
                ELSE PhaseTemplate("TAPER - Rest and recover",
                         longRunDistance, <<Quality("tuesday", "intervals", 30)>>,
                         <<"thursday", "saturday">>, Undefined, totalMileage)
    IN  [n \in 1..numWeeks |-> Week(n)]

\* one phase of generateWeeks: week i of the phase gets templates[i], or the
\* last template when there is none at that index
PairPhase(phaseWeeks, templates) ==
    [n \in 1..Len(phaseWeeks) |->
        [weekInfo |-> phaseWeeks[n],
         template |-> IF n <= Len(templates) THEN templates[n] ELSE templates[Len(templates)]]]

generateWeeks(weekSchedule, lvl) ==
    LET baseWeeks == SelectSeq(weekSchedule, LAMBDA w : w.phase = "base")
        buildWeeks == SelectSeq(weekSchedule, LAMBDA w : w.phase = "build")
        peakWeeks == SelectSeq(weekSchedule, LAMBDA w : w.phase = "peak")
        taperWeeks == SelectSeq(weekSchedule, LAMBDA w : w.phase \in {"taper", "race"})
    IN  PairPhase(baseWeeks, generateBasePhase(Len(baseWeeks), lvl))
        \o PairPhase(buildWeeks, generateBuildPhase(Len(buildWeeks), lvl))
        \o PairPhase(peakWeeks, generatePeakPhase(Len(peakWeeks), lvl))
        \o PairPhase(taperWeeks, generateTaperPhase(Len(taperWeeks), lvl))

GenerateWeeksCalls ==
    {[fn |-> "generateWeeks", startDate |-> d, level |-> l] : d \in StartDates, l \in Levels}

GenerateWeeks ==
    /\ pc = "call"
    /\ call.fn = "generateWeeks"
    /\ ret' = generateWeeks(generateWeekSchedule(call.startDate), call.level)
    /\ pc' = "returned"
    /\ UNCHANGED <<inputs, runningSchedule, strengthAllocations, week, call>>

CalendarCalls == ParseBlockedDatesCalls \cup GenerateWeekScheduleCalls \cup CalculateHRZonesCalls \cup GenerateWeeksCalls

InitCalendar ==
    /\ pc = "call"
    /\ call \in CalendarCalls
    /\ ret = NoCall
    /\ template = BaseWeek3Template
    /\ phase = "base"
    /\ isRecoveryWeek = FALSE
    /\ level = "moderate"
    /\ blockedDates = <<>>
    /\ strengthPreferences = StrengthPreferences(0, {})
    /\ availability \in AvailableDaySets
    /\ runningSchedule = EmptyMap
    /\ strengthAllocations = [d \in {} |-> NoAllocation]
    /\ week = NoWeek

NextCalendar == ParseBlockedDates \/ GenerateWeekSchedule \/ CalculateHRZones \/ GenerateWeeks

SpecCalendar == InitCalendar /\ [][NextCalendar]_vars

(* C25: every blocked date range built by parseBlockedDates has
   start <= end, for every parsed form: a month with a day range, a single
   day, a numeric MM/DD-MM/DD range, including ranges whose second day
   number is smaller than the first and numeric ranges whose months fall on
   different sides of the race month. *)
C25_StartNotAfterEnd ==
    Returned("parseBlockedDates") =>
        \A i \in 1..Len(ret) : ret[i].start <= ret[i].end

PhaseRank(p) ==
    CASE p = "base" -> 1 [] p = "build" -> 2 [] p = "peak" -> 3 [] p = "taper" -> 4 [] p = "race" -> 5

StandardPhases ==
    [i \in 1..15 |-> IF i <= 4 THEN "base" ELSE IF i <= 10 THEN "build"
                     ELSE IF i <= 13 THEN "peak" ELSE IF i = 14 THEN "taper" ELSE "race"]

(* C26: in a 15-week plan weeks 1-4 are base, 5-10 build, 11-13 peak,
   week 14 taper and week 15 race; and for every plan length from 8 to 20
   the phase never goes backwards as the week number grows (base, build,
   peak, taper, race in that order) and exactly the last week is race. *)
C26_PhaseOrder ==
    Returned("generateWeekSchedule") =>
        /\ Len(ret) \in MinPlanWeeks..MaxPlanWeeks
        /\ Len(ret) = 15 => [i \in 1..15 |-> ret[i].phase] = StandardPhases
        /\ \A i \in 1..Len(ret) : \A j \in i..Len(ret) :
               PhaseRank(ret[i].phase) <= PhaseRank(ret[j].phase)
        /\ \A i \in 1..Len(ret) : ret[i].phase = "race" <=> i = Len(ret)

C26_Witness ==
    /\ Returned("generateWeekSchedule")
    /\ Len(ret) = 15
    /\ ret[14].phase = "taper"
    /\ ret[15].phase = "race"

(* C27: calculateHRZones picks the zone method by the documented priority:
   the heart-rate-reserve (Karvonen) zones whenever a resting HR is given,
   else the LTHR zones when an LTHR is given, else the percentage-of-max-HR
   zones; with both a resting HR and an LTHR the zones are the
   heart-rate-reserve zones. *)
C27_ZoneMethodPriority ==
    Returned("calculateHRZones") =>
        LET h == call.hrData
        IN  ret = IF h.restingHR # 0 THEN calculateZonesFromHRR(h.maxHR, h.restingHR)
                  ELSE IF h.lthr # 0 THEN calculateZonesFromLTHR(h.lthr, h.maxHR)
                  ELSE calculateZonesFromMaxHR(h.maxHR)

\* a template the phase generators label as a recovery week
IsRecoveryTemplate(t) ==
    t.focus \in {"RECOVERY WEEK - Absorb base training, prepare for build phase",
                 "RECOVERY WEEK - Absorb build training",
                 "RECOVERY WEEK - Final recovery before peak phase"}

(* C28: for every plan length from 8 to 20 weeks and every week of the
   plan, the week schedule flags the week isRecoveryWeek exactly when the
   template generateWeeks pairs with it is a recovery-week template of its
   phase; the flag and the template never disagree. *)
C28_FlagMatchesTemplate ==
    Returned("generateWeeks") =>
        \A k \in 1..Len(ret) :
            ret[k].weekInfo.isRecoveryWeek <=> IsRecoveryTemplate(ret[k].template)

(* C29: for every plan start date the last week of the schedule returned
   by generateWeekSchedule - the week with phase race and weeksUntilRace
   = 1 - contains the race date: its Monday start date <= race date <= its
   Sunday end date, whichever weekday the start date falls on and also
   when the week count is clamped to 8 or 20. *)
C29_RaceWeekContainsRace ==
    Returned("generateWeekSchedule") =>
        LET last == ret[Len(ret)]
        IN  /\ last.phase = "race"
            /\ last.weeksUntilRace = 1
            /\ last.startDate <= RACE_DATE
            /\ RACE_DATE <= last.endDate

\* the race date as a date of the generated week, when that week is the
\* calendar week of the race
RaceDateOfWeek == WeekStart + (RACE_DATE - getMondayOfWeek(RACE_DATE))

(* C30: in the race week the weekday that carries the 26.2-mile race run
   has a calendar date equal to the race date (2026-04-26), and the days
   after it in that week are rest. *)
C30_RaceRunOnRaceDate ==
    (Done /\ phase = "race" /\ template = createRaceWeekTemplate) =>
        \A d \in Days :
            week.days[d].running.totalDistance = 262 =>
                /\ week.days[d].date = RaceDateOfWeek
                /\ \A e \in Days :
                       week.days[e].date > week.days[d].date =>
                           week.days[e].running.type = "rest"

====
